---- MODULE Spec2Model ----
(***************************************************************************)
(* libby_download.py: the configuration file, the run() sequence of UI     *)
(* steps, the forward part-discovery pass, the missing-part retry phase    *)
(* and the "request" event handler handle_request.                         *)
(*                                                                         *)
(* Scheduling.  The script uses Playwright's sync API: handle_request runs *)
(* in its own greenlet for every "request" event, and events are           *)
(* dispatched only while some greenlet waits inside a Playwright call.     *)
(* The handler itself waits twice, in request.response() (line 84) and in  *)
(* response.body() (line 102); other handler invocations run meanwhile.    *)
(* A main-thread action below stands for one Playwright call (taken at its *)
(* return) together with the plain Python that follows it up to the next   *)
(* Playwright call; handler steps happen between main-thread actions, and  *)
(* not where the main thread runs plain Python only (time.sleep, input,    *)
(* the missing-part computation).                                          *)
(***************************************************************************)
EXTENDS Integers, Sequences, FiniteSets, Bags, TLC

\* ---------------------------------------------------------------- bounds
\* Highest part number a trigger URL names in the model.
MaxPart == 3
\* handle_request invocations for CDN URLs that may wait at the same time.
MaxInFlight == 1
\* Longest list of libraries / card options / audiobooks the page shows.
MaxList == 2
\* Consecutive executions of the script that share libby_config.json.
MaxRuns == 2
\* MAX_FORWARD_CLICKS (line 539, 500 in the source) and
\* MAX_NO_NEW_PARTS_ITERATIONS (line 538, 10 in the source), scaled so that
\* the forward pass can reach both limits with MaxPart parts.
MAX_FORWARD_CLICKS == 3
MAX_NO_NEW_PARTS_ITERATIONS == 2

\* ------------------------------------------------------ program constants
\* retries = 3 (line 595)
retries == 3
\* for _ in range(2) (line 602): 'previous chapter' clicks per attempt
PREV_CLICKS == 2

Parts == 0..MaxPart
NoPart == -1

Max(a, b) == IF a >= b THEN a ELSE b

\* --------------------------------------------------------------- messages
MsgNoMissing == "No missing parts detected. All parts downloaded successfully!"
MsgComplete == "All download attempts complete."
MsgClosing == "Closing browser..."
MsgFinished == "Script finished."

VARIABLES
    \* module globals (lines 13-15, 128)
    downloaded_parts, max_part_number_found, part_number, config,
    \* the file system: libby_config.json and the Part_NN.mp3 files written
    file, files,
    \* handle_request invocations waiting in request.response() / response.body()
    pending_response, pending_body,
    \* run(): position, browser, loop variables
    pc, browser, leave, list_len,
    fwd_i, fwd_clicks, no_new_parts_count, current_parts_count,
    missing_parts, mp_idx, attempt, prev_click,
    \* load_config(): index of the next required field
    field_idx,
    \* standard output (the messages the claims name) and the script run number
    printed, run_no,
    \* history: the last step taken, the last trigger URL's number, what the
    \* user was prompted for in this run, the file the run started with, the
    \* configuration last handed to save_config, calls of save_config and
    \* browser.close() in this run, the parts the retry phase has started on
    ev, last_trigger, prompts, file0, saved, save_calls, closes, attempted,
    \* history: the login and navigation steps that succeeded in this run,
    \* and the last one made with the way it ended
    ui_log

gvars == <<downloaded_parts, max_part_number_found, part_number>>
hvars == <<pending_response, pending_body, files, last_trigger>>
cvars == <<config, file, field_idx, prompts, file0, saved, save_calls>>
fvars == <<fwd_i, fwd_clicks, no_new_parts_count, current_parts_count>>
bvars == <<missing_parts, mp_idx, attempt, prev_click, attempted>>
rvars == <<pc, browser, leave, list_len, printed, run_no, closes, ui_log>>
vars == <<gvars, hvars, cvars, fvars, bvars, rvars, ev>>

\* The step just taken: op names it; name is the file it wrote (or <<>>),
\* added the number it put into downloaded_parts (or NoPart), part the
\* missing part an attempt was for, flag a yes/no detail of the step.
Ev(op, name, added, part, flag) ==
    [op |-> op, name |-> name, added |-> added, part |-> part, flag |-> flag]
NoEv == Ev("none", <<>>, NoPart, NoPart, FALSE)
Step(op) == Ev(op, <<>>, NoPart, NoPart, FALSE)

\* ===================================================== handle_request
\* A request URL, as far as handle_request reads it: the digits that follow
\* "Part" when the URL matches Part(\d+).mp3 (<<>> when it does not match)
\* and whether it contains "audioclips.cdn.overdrive.com".
PartDigits == UNION {{<<n>>, <<0, n>>} : n \in 1..MaxPart}
Urls == [digits : {<<>>} \cup PartDigits, cdn : BOOLEAN]

\* int(part_match.group(1)) (line 80): decimal digits to a number
RECURSIVE int(_)
int(ds) == IF ds = <<>> THEN 0
           ELSE 10 * int(SubSeq(ds, 1, Len(ds) - 1)) + ds[Len(ds)]

\* f"{part_number:02d}" (line 95): decimal digits, zero-padded to two
RECURSIVE digits_of(_)
digits_of(n) == IF n < 10 THEN <<n>> ELSE Append(digits_of(n \div 10), n % 10)
file_name(n) == IF n < 10 THEN <<0, n>> ELSE digits_of(n)

\* Where the main thread waits inside a Playwright call while the player is
\* open, so that "request" events for audio parts are dispatched.
AudioPcs == {"player_load", "forward", "backward", "finally"}
Dispatching == browser = "open" /\ pc \in AudioPcs
InFlight == pending_response + BagCardinality(pending_body)

\* lines 73-81: the URL names a part; remember its number and return
handle_trigger(number) ==
    /\ Dispatching
    /\ part_number' = number
    /\ last_trigger' = number
    /\ ev' = NoEv
    /\ UNCHANGED <<downloaded_parts, max_part_number_found, files,
                   pending_response, pending_body,
                   cvars, fvars, bvars, rvars>>

\* lines 83-84, URL without a part number: the invocation waits in
\* request.response().  For a URL that is not the CDN's, nothing of the
\* state is read or written after the wait (lines 86-92, 123).
handle_request_enter(url) ==
    /\ Dispatching
    /\ IF url.cdn
       THEN /\ InFlight < MaxInFlight
            /\ pending_response' = pending_response + 1
       ELSE UNCHANGED pending_response
    /\ ev' = NoEv
    /\ UNCHANGED <<gvars, files, last_trigger, pending_body,
                   cvars, fvars, bvars, rvars>>

\* line 93 without its test: every CDN response is taken for a new part
is_new_part_unchecked == TRUE

\* line 93: if part_number not in downloaded_parts
is_new_part == part_number \notin downloaded_parts

\* lines 84-96: request.response() returns for a CDN URL.  None: return.
\* A part already downloaded: return.  Otherwise the file name is fixed from
\* part_number as it is now, and the invocation waits in response.body().
handle_request_response(has_response) ==
    /\ browser = "open" /\ pc \in AudioPcs
    /\ pending_response > 0
    /\ pending_response' = pending_response - 1
    /\ IF has_response /\ is_new_part
       THEN /\ pending_body' = pending_body (+)
                    SetToBag({[file_name |-> file_name(part_number),
                               trigger |-> last_trigger]})
            /\ ev' = NoEv
       ELSE /\ UNCHANGED pending_body
            /\ ev' = IF has_response THEN Step("skip") ELSE NoEv
    /\ UNCHANGED <<gvars, files, last_trigger, cvars, fvars, bvars, rvars>>

\* line 105: if response.status == 200 and content_length > 0
is_download(status, content_length) == status = 200 /\ content_length > 0

\* lines 110-111, with the global part_number as it is when they run
record_part ==
    /\ downloaded_parts' = downloaded_parts \cup {part_number}
    /\ max_part_number_found' = Max(max_part_number_found, part_number)

Statuses == {200, 403, 404}
Lengths == {0, 1}
\* what may raise inside the try of lines 98-119
Raises == {"nothing", "body", "write"}

\* lines 102-119: response.body() returns (or raises) in invocation inv;
\* downloaded says whether lines 106-111 ran to their end
handle_request_body(inv, downloaded) ==
    /\ browser = "open" /\ pc \in AudioPcs
    /\ BagIn(inv, pending_body)
    /\ pending_body' = pending_body (-) SetToBag({inv})
    /\ IF downloaded
       THEN /\ files' = files \cup {inv.file_name}
            /\ record_part
            /\ ev' = Ev("write", inv.file_name, part_number, inv.trigger,
                        inv.file_name \in files)
       ELSE /\ UNCHANGED <<files, downloaded_parts, max_part_number_found>>
            /\ ev' = NoEv
    /\ UNCHANGED <<part_number, pending_response, last_trigger,
                   cvars, fvars, bvars, rvars>>

\* the numbers the matching URLs name, by line 80
TriggerNumbers == {int(url.digits) : url \in {u \in Urls : u.digits # <<>>}}
\* whether lines 106-111 run to their end, over all responses
DownloadResults ==
    {raises = "nothing" /\ is_download(status, content_length) :
        status \in Statuses, content_length \in Lengths, raises \in Raises}

handle_request ==
    \/ \E number \in TriggerNumbers : handle_trigger(number)
    \/ \E url \in {u \in Urls : u.digits = <<>>} : handle_request_enter(url)
    \/ \E has_response \in BOOLEAN : handle_request_response(has_response)
    \/ \E inv \in BagToSet(pending_body), downloaded \in DownloadResults :
            handle_request_body(inv, downloaded)

\* ================================================ libby_config.json
\* required_fields (line 38), in the order the loop visits them
required_fields ==
    <<"LIBRARY_CARD_NUMBER", "LIBBY_PASSWORD", "LIBRARY", "DOWNLOAD_DIRECTORY">>
Required == {required_fields[i] : i \in 1..Len(required_fields)}
LibraryKey == "LIBRARY_SEARCH_RESULT_INDEX"
UsageKey == "LIBRARY_CARD_USAGE_OPTION_INDEX"
\* not a key of the configuration: the name under which the history
\* variable prompts records the audiobook question of line 495
AudiobookPrompt == "AUDIOBOOK"
\* the order in which the program inserts keys into the dict
KeyOrder == required_fields \o <<LibraryKey, UsageKey>>
Keys == {KeyOrder[i] : i \in 1..Len(KeyOrder)}

\* A configuration is a function from the keys present to their values:
\* strings for the required fields, numbers for the two index keys.
EmptyConfig == [k \in {} |-> ""]
Put(cfg, key, value) ==
    [k \in DOMAIN cfg \cup {key} |-> IF k = key THEN value ELSE cfg[k]]

\* json.dump of the required fields only: the two indexes are left out
json_dump_required(cfg) ==
    LET ks == SelectSeq(required_fields, LAMBDA k : k \in DOMAIN cfg)
    IN [i \in 1..Len(ks) |-> <<ks[i], cfg[ks[i]]>>]

\* json.dump (line 62): the members present, as name/value pairs in order
json_dump(cfg) ==
    LET ks == SelectSeq(KeyOrder, LAMBDA k : k \in DOMAIN cfg)
    IN [i \in 1..Len(ks) |-> <<ks[i], cfg[ks[i]]>>]

\* json.load (line 28): a dict from the pairs of the text
json_load(text) ==
    [k \in {text[i][1] : i \in 1..Len(text)} |->
        text[CHOOSE i \in 1..Len(text) : text[i][1] = k][2]]

Missing == [kind |-> "missing", text |-> <<>>]
Corrupt == [kind |-> "corrupt", text |-> <<>>]
JsonFile(cfg) == [kind |-> "json", text |-> json_dump(cfg)]

\* save_config (lines 59-63)
save_config(cfg) ==
    /\ file' = JsonFile(cfg)
    /\ saved' = <<cfg>>
    /\ save_calls' = save_calls + 1

\* os.path.join(os.getcwd(), "Libby_Audiobook_Downloads") (line 48)
default_dir == "Libby_Audiobook_Downloads"
\* what the user may type at a prompt of load_config
Inputs == {"", "b"}

\* lines 24-34: read the file; a missing or undecodable file gives {}
load_config_read ==
    /\ pc = "load_config"
    /\ config' = IF file.kind = "json" THEN json_load(file.text) ELSE EmptyConfig
    /\ field_idx' = 1
    /\ pc' = "load_fields"
    /\ ev' = Step("read_config")
    /\ UNCHANGED <<gvars, hvars, fvars, bvars, file, prompts, file0, saved,
                   save_calls, browser, leave, list_len, printed, run_no, closes>>
    /\ UNCHANGED ui_log

\* line 40 without its second test: if field not in config
needs_prompt_if_absent(cfg, field) == field \notin DOMAIN cfg

\* line 40: if field not in config or not config[field]
needs_prompt(cfg, field) == field \notin DOMAIN cfg \/ cfg[field] = ""

\* lines 41-49: the value stored for what the user typed
prompted_value(field, typed) ==
    IF field = "DOWNLOAD_DIRECTORY" /\ typed = "" THEN default_dir ELSE typed

\* lines 39-50, one round of the loop; after the last round lines 52-57
load_config_field(typed) ==
    /\ pc = "load_fields"
    /\ LET field == required_fields[field_idx]
       IN IF needs_prompt(config, field)
          THEN /\ config' = Put(config, field, prompted_value(field, typed))
               /\ save_config(config')
               /\ prompts' = prompts \cup {field}
               /\ ev' = Step("prompt")
          ELSE /\ UNCHANGED <<config, file, saved, save_calls, prompts>>
               /\ ev' = Step("kept")
    /\ IF field_idx = Len(required_fields)
       THEN pc' = "launch" /\ field_idx' = 0
       ELSE pc' = pc /\ field_idx' = field_idx + 1
    /\ UNCHANGED <<gvars, hvars, fvars, bvars, file0,
                   browser, leave, list_len, printed, run_no, closes>>
    /\ UNCHANGED ui_log

load_config ==
    \/ load_config_read
    \/ \E typed \in Inputs : load_config_field(typed)

\* ================================================================ run()
\* The program points of run(), in program order.  Each names the
\* Playwright call (or prompt) the main thread is about to make.
Order ==
    <<"launch", "new_page", "goto", "card_button", "search_button",
      "library_fill", "library_list", "library_prompt", "library_click",
      "sign_in_card", "usage_list", "usage_prompt", "usage_click",
      "card_number", "next", "pin", "sign_in", "post_login_next",
      "login_wait", "shelf", "audiobook_list", "audiobook_prompt",
      "audiobook_click", "player_load", "forward", "check_missing",
      "backward", "finally", "finished">>
Pos(p) == CHOOSE i \in 1..Len(Order) : Order[i] = p
After(p) == Order[Pos(p) + 1]

\* How a Playwright call ends.
Outcomes == {"ok", "timeout", "error"}

\* Steps in a try whose only handler is "except PlaywrightTimeoutError:
\* return" (lines 181-191, 195-205, 209-220, 293-303, 365-376, 380-390,
\* 394-405, 409-419, 453-462): any other exception reaches line 630.
GateSteps == {"card_button", "search_button", "library_fill", "sign_in_card",
              "card_number", "next", "pin", "sign_in", "shelf"}
\* Steps outside any inner try (lines 167-177, 437-440): lines 627-631 catch.
BareSteps == {"new_page", "goto", "login_wait"}
\* as if the handler of the Shelf step (lines 459-462) fell through as well
OptionalSteps_and_shelf == {"post_login_next", "shelf"}
\* The optional step (lines 423-433): both handlers fall through.
OptionalSteps == {"post_login_next"}

\* The record of the login and navigation steps: a step is passed when its
\* Playwright calls returned (and, for a list, the list had entries).
NoUi == [passed |-> {}, step |-> "none", outcome |-> "none"]
ui_record(step, outcome) ==
    ui_log' = [passed |-> IF outcome = "ok" THEN ui_log.passed \cup {step}
                          ELSE ui_log.passed,
               step |-> step, outcome |-> outcome]

\* leaving run() as if the statement were outside the try of line 143
Leave_past_finally(how) == pc' = "finished" /\ leave' = how

\* Leaving the try body of lines 143-625 for the finally of line 632: by a
\* return, by PlaywrightTimeoutError (line 627), by another exception
\* (line 630) or by reaching its end.
Leave(how) == pc' = "finally" /\ leave' = how

\* line 166: p.chromium.launch; on failure browser is still None
launch(outcome) ==
    /\ pc = "launch"
    /\ IF outcome = "ok"
       THEN browser' = "open" /\ pc' = After(pc) /\ UNCHANGED leave
       ELSE /\ UNCHANGED browser
            /\ Leave(IF outcome = "timeout" THEN "timeout" ELSE "exception")
    /\ ev' = Step("launch")
    /\ UNCHANGED <<gvars, hvars, cvars, fvars, bvars,
                   list_len, printed, run_no, closes>>
    /\ UNCHANGED ui_log

\* one step of the linear login and navigation sequence
ui_step(outcome) ==
    /\ pc \in GateSteps \cup BareSteps \cup OptionalSteps
    /\ IF outcome = "ok" \/ pc \in OptionalSteps
       THEN pc' = After(pc) /\ UNCHANGED leave
       ELSE IF outcome = "timeout"
            THEN Leave(IF pc \in GateSteps THEN "return" ELSE "timeout")
            ELSE Leave("exception")
    /\ ev' = Step("ui")
    /\ ui_record(pc, outcome)
    /\ UNCHANGED <<gvars, hvars, cvars, fvars, bvars,
                   browser, list_len, printed, run_no, closes>>

\* The three selections from a list the page shows (lines 224-289, 307-361,
\* 466-524): the program point that reads the list and the configuration
\* key that may hold a saved answer (none for the audiobook).
ListSteps == {"library_list", "usage_list", "audiobook_list"}
PromptSteps == {"library_prompt", "usage_prompt", "audiobook_prompt"}
ClickSteps == {"library_click", "usage_click", "audiobook_click"}
KeyOf(p) ==
    CASE p \in {"library_list", "library_prompt"} -> LibraryKey
      [] p \in {"usage_list", "usage_prompt"} -> UsageKey
      [] OTHER -> AudiobookPrompt

\* lines 258-259, 325-326: the saved index is missing or out of range
\* (the audiobook has no saved answer: lines 491-495 always ask)
index_invalid(cfg, key, n) ==
    \/ key \notin DOMAIN cfg
    \/ ~(0 <= cfg[key] /\ cfg[key] < n)

\* lines 227-259, 309-326, 468-489: wait for the list, read its n entries
list_step(outcome, n) ==
    /\ pc \in ListSteps
    /\ IF outcome # "ok"
       THEN Leave("return") /\ UNCHANGED list_len
       ELSE IF n = 0
            THEN Leave("return") /\ UNCHANGED list_len
            ELSE /\ list_len' = n
                 /\ UNCHANGED leave
                 /\ pc' = IF index_invalid(config, KeyOf(pc), n)
                          THEN After(pc) ELSE After(After(pc))
    /\ ev' = Step("ui")
    /\ ui_record(pc, IF outcome = "ok" /\ n = 0 THEN "empty" ELSE outcome)
    /\ UNCHANGED <<gvars, hvars, cvars, fvars, bvars,
                   browser, printed, run_no, closes>>

\* what the user may type when asked for a number: 0 stands for text that
\* is not a number (ValueError), the rest for that number
Choices == 0..(MaxList + 1)

\* lines 260-271, 330-341, 493-503: one round of the input loop
prompt_step(choice) ==
    /\ pc \in PromptSteps
    /\ prompts' = prompts \cup {KeyOf(pc)}
    /\ IF choice >= 1 /\ 0 <= choice - 1 /\ choice - 1 < list_len
       THEN /\ pc' = After(pc)
            /\ IF KeyOf(pc) \in Keys
               THEN /\ config' = Put(config, KeyOf(pc), choice - 1)
                    /\ save_config(config')
               ELSE UNCHANGED <<config, file, saved, save_calls>>
       ELSE UNCHANGED <<pc, config, file, saved, save_calls>>
    /\ ev' = Step("prompt")
    /\ UNCHANGED <<gvars, hvars, fvars, bvars, field_idx, file0,
                   browser, leave, list_len, printed, run_no, closes>>
    /\ UNCHANGED ui_log

\* lines 277-289, 346-361, 507-524: click the chosen entry
click_step(outcome) ==
    /\ pc \in ClickSteps
    /\ IF outcome = "ok"
       THEN pc' = After(pc) /\ UNCHANGED leave
       ELSE Leave("return")
    /\ list_len' = 0
    /\ ev' = Step("ui")
    /\ ui_record(pc, outcome)
    /\ UNCHANGED <<gvars, hvars, cvars, fvars, bvars,
                   browser, printed, run_no, closes>>

\* lines 528-545: the screenshot of the opened player, then the set-up of
\* the forward pass and the top of its first iteration
player_load(outcome) ==
    /\ pc = "player_load"
    /\ IF outcome = "ok"
       THEN /\ pc' = "forward"
            /\ fwd_i' = 0
            /\ fwd_clicks' = 0
            /\ no_new_parts_count' = 0
            /\ current_parts_count' = Cardinality(downloaded_parts)
            /\ UNCHANGED leave
       ELSE /\ Leave(IF outcome = "timeout" THEN "timeout" ELSE "exception")
            /\ UNCHANGED fvars
    /\ ev' = Step("ui")
    /\ UNCHANGED <<gvars, hvars, cvars, bvars,
                   browser, list_len, printed, run_no, closes>>
    /\ UNCHANGED ui_log

\* ------------------------------------------------ forward pass (544-567)
\* the loop without its range(MAX_FORWARD_CLICKS): while True
forward_stop_unlimited(new_count) ==
    new_count >= MAX_NO_NEW_PARTS_ITERATIONS

\* lines 544, 563: the loop ends after this iteration, by the break of
\* line 565 or because range(MAX_FORWARD_CLICKS) is used up
forward_stop(new_count) ==
    \/ new_count >= MAX_NO_NEW_PARTS_ITERATIONS
    \/ fwd_i + 1 >= MAX_FORWARD_CLICKS

\* One iteration: wait_for_selector and click (their outcome), the sleep,
\* the comparison of lines 560-567 and the top of the next iteration.
forward_click(outcome) ==
    /\ pc = "forward"
    /\ IF outcome # "ok"
       THEN \* lines 553-558: break
            /\ pc' = "check_missing"
            /\ UNCHANGED fvars
       ELSE LET new_count ==
                    IF Cardinality(downloaded_parts) = current_parts_count
                    THEN no_new_parts_count + 1 ELSE 0
                stop == forward_stop(new_count)
            IN /\ fwd_clicks' = fwd_clicks + 1
               /\ no_new_parts_count' = new_count
               /\ IF stop
                  THEN pc' = "check_missing"
                       /\ UNCHANGED <<fwd_i, current_parts_count>>
                  ELSE /\ pc' = pc
                       /\ fwd_i' = fwd_i + 1
                       /\ current_parts_count' = Cardinality(downloaded_parts)
    /\ ev' = Step(IF outcome = "ok" THEN "ui" ELSE "forward_break")
    /\ UNCHANGED <<gvars, hvars, cvars, bvars,
                   browser, leave, list_len, printed, run_no, closes>>
    /\ UNCHANGED ui_log

\* ------------------------------------------ missing parts (lines 574-582)
\* line 575 written as range(max_part_number_found): 0 .. max - 1
RECURSIVE missing_from_zero(_, _)
missing_from_zero(i, last) ==
    IF i > last THEN <<>>
    ELSE (IF i \notin downloaded_parts THEN <<i>> ELSE <<>>)
         \o missing_from_zero(i + 1, last)
find_missing_from_zero == missing_from_zero(0, max_part_number_found - 1)

\* for i in range(1, max_part_number_found + 1): if i not in downloaded_parts
RECURSIVE missing_from(_, _, _)
missing_from(i, last, have) ==
    IF i > last THEN <<>>
    ELSE (IF i \notin have THEN <<i>> ELSE <<>>) \o missing_from(i + 1, last, have)
find_missing == missing_from(1, max_part_number_found, downloaded_parts)


\* lines 569-582 and, when nothing is missing, line 625
check_missing ==
    /\ pc = "check_missing"
    /\ missing_parts' = find_missing
    /\ IF find_missing = <<>>
       THEN /\ printed' = printed \cup {MsgNoMissing, MsgComplete}
            /\ Leave("end")
            /\ UNCHANGED <<mp_idx, attempt, prev_click, attempted>>
       ELSE /\ pc' = "backward"
            /\ mp_idx' = 1
            /\ attempt' = 0
            /\ prev_click' = 0
            /\ attempted' = <<find_missing[1]>>
            /\ UNCHANGED <<printed, leave>>
    /\ ev' = Step("check_missing")
    \* the locals of the forward pass are not read again
    /\ fwd_i' = 0 /\ fwd_clicks' = 0
    /\ no_new_parts_count' = 0 /\ current_parts_count' = 0
    /\ UNCHANGED <<gvars, hvars, cvars, browser, list_len, run_no, closes>>
    /\ UNCHANGED ui_log

\* --------------------------------------- missing-part retries (593-625)
\* line 593: the next missing part, or line 625 after the last one
next_missing_part ==
    IF mp_idx < Len(missing_parts)
    THEN /\ mp_idx' = mp_idx + 1
         /\ attempt' = 0
         /\ prev_click' = 0
         /\ attempted' = Append(attempted, missing_parts[mp_idx + 1])
         /\ UNCHANGED <<pc, leave, printed>>
    ELSE /\ printed' = printed \cup {MsgComplete}
         /\ Leave("end")
         /\ UNCHANGED <<mp_idx, attempt, prev_click, attempted>>

\* line 596: the next attempt at the same part, or lines 622-623
next_attempt ==
    IF attempt + 1 < retries
    THEN /\ attempt' = attempt + 1
         /\ prev_click' = 0
         /\ UNCHANGED <<mp_idx, attempted, pc, leave, printed>>
    ELSE next_missing_part

\* lines 615-619 without the break of line 617
after_check_no_break(found) == next_attempt

\* lines 615-619: the part has arrived (break) or not (next attempt)
after_check(found) == IF found THEN next_missing_part ELSE next_attempt

\* lines 602-621: one 'previous chapter' click of the current attempt.  A
\* timeout, or the last click, ends the inner loop and lines 610-619 run;
\* any other exception is caught at line 620 and ends the attempt unchecked.
prev_chapter_click(outcome) ==
    /\ pc = "backward"
    /\ LET part == missing_parts[mp_idx]
           found == part \in downloaded_parts
       IN IF outcome = "error"
          THEN /\ next_attempt
               /\ ev' = Ev("attempt_raised", <<>>, NoPart, part, found)
          ELSE IF outcome = "ok" /\ prev_click + 1 < PREV_CLICKS
               THEN /\ prev_click' = prev_click + 1
                    /\ UNCHANGED <<mp_idx, attempt, attempted, pc, leave, printed>>
                    /\ ev' = Step("ui")
               ELSE /\ after_check(found)
                    /\ ev' = Ev("attempt_checked", <<>>, NoPart, part, found)
    /\ UNCHANGED <<gvars, hvars, cvars, fvars, missing_parts,
                   browser, list_len, run_no, closes>>
    /\ UNCHANGED ui_log

\* ------------------------------------------------------ finally (632-636)
finally ==
    /\ pc = "finally"
    /\ IF browser # "none"
       THEN /\ browser' = "closed"
            /\ closes' = closes + 1
            /\ printed' = printed \cup {MsgClosing, MsgFinished}
       ELSE /\ UNCHANGED <<browser, closes>>
            /\ printed' = printed \cup {MsgFinished}
    \* the with block of line 141 ends: Playwright stops, and invocations of
    \* handle_request still waiting are never resumed
    /\ pending_response' = 0
    /\ pending_body' = EmptyBag
    /\ pc' = "finished"
    /\ ev' = Step("finally")
    /\ UNCHANGED <<gvars, files, last_trigger, cvars, fvars, bvars,
                   leave, list_len, run_no>>
    /\ UNCHANGED ui_log

\* ======================================================= specifications
\* The state of a fresh process (lines 13-15, 128) before run() is called.
Fresh ==
    /\ downloaded_parts = {}
    /\ max_part_number_found = 0
    /\ part_number = 0
    /\ pending_response = 0
    /\ pending_body = EmptyBag
    /\ leave = "none"
    /\ list_len = 0
    /\ fwd_i = 0 /\ fwd_clicks = 0
    /\ no_new_parts_count = 0 /\ current_parts_count = 0
    /\ missing_parts = <<>> /\ mp_idx = 0 /\ attempt = 0 /\ prev_click = 0
    /\ field_idx = 0
    /\ printed = {}
    /\ ev = NoEv
    /\ last_trigger = NoPart
    /\ save_calls = 0
    /\ closes = 0
    /\ attempted = <<>>

\* What libby_config.json may hold when the script starts: nothing, text
\* that is not JSON, or an object with any of the keys; a required field
\* present is empty or not, an index present is the last one of a full list.
Merge(f, g) ==
    [k \in DOMAIN f \cup DOMAIN g |-> IF k \in DOMAIN f THEN f[k] ELSE g[k]]
InitConfigs ==
    {Merge(r, x) :
        r \in UNION {[D -> {"", "a"}] : D \in SUBSET Required},
        x \in UNION {[D -> {MaxList - 1}] : D \in SUBSET {LibraryKey, UsageKey}}}
InitFiles == {Missing, Corrupt} \cup {JsonFile(cfg) : cfg \in InitConfigs}

\* the script is started again (line 656) with the file the last run left
next_run ==
    /\ pc = "finished"
    /\ run_no < MaxRuns
    /\ run_no' = run_no + 1
    /\ pc' = "load_config"
    /\ file0' = file
    /\ downloaded_parts' = {}
    /\ max_part_number_found' = 0
    /\ part_number' = 0
    /\ pending_response' = 0
    /\ pending_body' = EmptyBag
    /\ leave' = "none"
    /\ list_len' = 0
    /\ fwd_i' = 0 /\ fwd_clicks' = 0
    /\ no_new_parts_count' = 0 /\ current_parts_count' = 0
    /\ missing_parts' = <<>> /\ mp_idx' = 0 /\ attempt' = 0 /\ prev_click' = 0
    /\ field_idx' = 0
    /\ printed' = {}
    /\ ev' = NoEv
    /\ last_trigger' = NoPart
    /\ save_calls' = 0
    /\ closes' = 0
    /\ attempted' = <<>>
    /\ ui_log' = NoUi
    /\ config' = EmptyConfig
    /\ browser' = "none"
    /\ prompts' = {}
    /\ UNCHANGED <<file, files, saved>>

\* ---- SpecRun: the script from its start, run MaxRuns times over the same
\* configuration file, while the site requests no audio part.
InitRun ==
    /\ Fresh
    /\ config = EmptyConfig
    /\ browser = "none"
    /\ prompts = {}
    /\ pc = "load_config"
    /\ run_no = 1
    /\ ui_log = NoUi
    /\ file \in InitFiles
    /\ file0 = file
    /\ files = {}
    /\ saved = <<>>

NextRun ==
    \/ load_config
    \/ \E outcome \in Outcomes : launch(outcome)
    \/ \E outcome \in Outcomes : ui_step(outcome)
    \/ \E outcome \in Outcomes, n \in 0..MaxList : list_step(outcome, n)
    \/ \E choice \in Choices : prompt_step(choice)
    \/ \E outcome \in Outcomes : click_step(outcome)
    \/ \E outcome \in Outcomes : player_load(outcome)
    \/ \E outcome \in Outcomes : forward_click(outcome)
    \/ check_missing
    \/ finally
    \/ next_run

SpecRun == InitRun /\ [][NextRun]_vars

\* ---- Spec: one run from the moment the audiobook player has been opened
\* (line 528), with the request handler attached and audio requests coming.
PlayerConfig ==
    Merge([k \in Required |-> "a"], [k \in {LibraryKey, UsageKey} |-> 0])

Init ==
    /\ Fresh
    /\ config = PlayerConfig
    /\ browser = "open"
    /\ prompts = {AudiobookPrompt}
    /\ pc = "player_load"
    /\ run_no = 1
    /\ ui_log = [passed |-> GateSteps \cup BareSteps \cup ListSteps \cup ClickSteps,
                 step |-> "audiobook_click", outcome |-> "ok"]
    /\ file = JsonFile(PlayerConfig)
    /\ file0 = file
    /\ files = {}
    /\ saved = <<>>

\* the main thread's steps from the opened player to the end of run()
player_phase ==
    \/ \E outcome \in Outcomes : player_load(outcome)
    \/ \E outcome \in Outcomes : forward_click(outcome)
    \/ check_missing
    \/ \E outcome \in Outcomes : prev_chapter_click(outcome)
    \/ finally

Next == handle_request \/ player_phase

Spec == Init /\ [][Next]_vars

\* Every Playwright call of the two loops returns or times out, and every
\* sleep ends: the main thread keeps taking its steps.
FairSpec == Spec /\ WF_vars(player_phase)

\* =============================================================== claims
Range(seq) == {seq[i] : i \in 1..Len(seq)}

\* C1: whenever handle_request writes a file for a CDN request, the file is
\* named Part_NN.mp3 with NN the number of the trigger URL handled most
\* recently (here: given that the invocation had seen a trigger URL when it
\* chose the name).
C1_NamedAfterLastTrigger ==
    (ev.op = "write" /\ ev.part # NoPart) => ev.name = file_name(last_trigger)

\* C2: every member of downloaded_parts has had its file written.
C2_DownloadedHaveFiles ==
    \A n \in downloaded_parts : file_name(n) \in files

C10_SameNumberWrittenOnce ==
    ev.op = "write" => (ev.name = file_name(ev.added) /\ ~ev.flag)

\* C4: right after the forward pass the missing-part list is exactly the
\* numbers 1..max_part_number_found that are not in downloaded_parts at that
\* moment; the "No missing parts" message is printed if and only if there is
\* none, and otherwise the retry phase starts.
C4_MissingPartsExact ==
    ev.op = "check_missing" =>
        LET missing == {i \in 1..max_part_number_found : i \notin downloaded_parts}
        IN /\ Range(missing_parts) = missing
           /\ Len(missing_parts) = Cardinality(missing)
           /\ (MsgNoMissing \in printed) <=> (missing = {})
           /\ (missing # {}) <=> (pc = "backward")
           /\ (missing = {}) <=> (pc = "finally")

\* C4, its case: the check has just found a part missing below a downloaded
\* one and started the retry phase.
C4_Witness ==
    /\ ev.op = "check_missing"
    /\ missing_parts = <<1>>
    /\ 2 \in downloaded_parts
    /\ pc = "backward"

Ascending(seq) == \A i, j \in 1..Len(seq) : i < j => seq[i] < seq[j]

\* C5 as stated: once an attempt has ended, in whatever way, with the part
\* in downloaded_parts, that part is not attempted again.
C5_StopsAfterAnyAttempt ==
    (ev.op \in {"attempt_checked", "attempt_raised"} /\ ev.flag)
        => ~(pc = "backward" /\ missing_parts[mp_idx] = ev.part)

\* C5 (amended): the retry phase takes the missing parts in ascending order,
\* makes at most retries attempts per part with at most PREV_CLICKS clicks
\* each, moves on after the first attempt whose check at its end (lines
\* 615-617, reached when the attempt raised no exception) finds the part in
\* downloaded_parts, attempts every missing part whatever happened to the
\* ones before, and always reaches "All download attempts complete.".
C5_RetryPhase ==
    /\ [](pc = "backward" =>
            /\ attempt < retries
            /\ prev_click < PREV_CLICKS
            /\ attempted = SubSeq(missing_parts, 1, mp_idx)
            /\ Ascending(attempted))
    /\ []((missing_parts # <<>> /\ MsgComplete \in printed)
            => attempted = missing_parts)
    /\ [][(/\ pc = "backward"
           /\ ev'.op = "attempt_checked"
           /\ missing_parts[mp_idx] \in downloaded_parts)
          => (pc' = "finally" \/ mp_idx' = mp_idx + 1)]_vars
    /\ (pc = "backward") ~> (MsgComplete \in printed)

\* C5, its case: an attempt's check found the first missing part, and the
\* phase went on to the second one.
C5_Witness ==
    /\ ev.op = "attempt_checked"
    /\ ev.flag
    /\ pc = "backward"
    /\ mp_idx = 2
    /\ attempt = 0

\* C6: the forward pass performs at most MAX_FORWARD_CLICKS clicks, ends at
\* once when the button is not found or the click raises, goes on to the
\* missing-part check in both cases, and always terminates.
C6_ForwardPassEnds ==
    /\ [](fwd_clicks <= MAX_FORWARD_CLICKS)
    /\ [][(pc = "forward" /\ ev'.op = "forward_break")
          => (pc' = "check_missing" /\ leave' = "none"
              /\ fwd_clicks' = fwd_clicks)]_vars
    /\ (pc = "forward") ~> (pc = "check_missing")

\* C6, its case: the pass ended because all MAX_FORWARD_CLICKS clicks were
\* made.
C6_Witness ==
    /\ pc = "check_missing"
    /\ fwd_clicks = MAX_FORWARD_CLICKS
    /\ no_new_parts_count < MAX_NO_NEW_PARTS_ITERATIONS


\* C7: once the browser is launched, every way of leaving run() is followed
\* by exactly one browser.close() and by "Script finished."; every way out
\* of the try body leads to the finally block, and no UI interaction takes
\* place unless the browser is open.
C7_BrowserClosedOnce ==
    /\ closes <= 1
    /\ (leave # "none") => (pc \in {"finally", "finished"})
    /\ (pc = "finished") =>
            /\ leave # "none"
            /\ MsgFinished \in printed
            /\ (browser # "none") => (browser = "closed" /\ closes = 1)
    /\ (browser = "closed") => (pc = "finished")
    /\ (ev.op = "ui") => (browser = "open" /\ closes = 0)

\* C7, its case: run() was left by an exception other than a timeout after
\* the browser had been launched, and the script has finished.
C7_Witness ==
    /\ pc = "finished"
    /\ leave = "exception"
    /\ browser = "closed"
    /\ closes = 1
    /\ MsgFinished \in printed

\* the configuration as json.load gave it at the start of this run
Loaded0 == IF file0.kind = "json" THEN json_load(file0.text) ELSE EmptyConfig
\* the required fields that configuration lacks or holds empty
Absent0 == {f \in Required : f \notin DOMAIN Loaded0 \/ Loaded0[f] = ""}

\* C8: load_config prompts for exactly the required fields that are absent
\* or empty in what it loaded, saves after each prompt, treats a missing or
\* undecodable file as empty (all four prompted), and leaves the fields that
\* are present and non-empty as they were.
C8_PromptsExactlyMissing ==
    /\ (pc = "load_fields") =>
            /\ prompts = {required_fields[i] : i \in 1..(field_idx - 1)}
                            \cap Absent0
            /\ save_calls = Cardinality(prompts)
            /\ (prompts # {}) => (file = JsonFile(config))
    /\ (pc = "launch") =>
            /\ prompts = Absent0
            /\ save_calls = Cardinality(Absent0)
            /\ (file0.kind # "json") => (prompts = Required)
            /\ \A f \in Required \ Absent0 : config[f] = Loaded0[f]
            /\ \A f \in Absent0 : f \in DOMAIN config
            /\ (Absent0 # {}) => (file = JsonFile(config))
            /\ (Absent0 = {}) => (file = file0)

\* C8, its case: load_config has returned after prompting for two of the
\* four fields of a readable file and keeping the other two.
C8_Witness ==
    /\ pc = "launch"
    /\ file0.kind = "json"
    /\ Cardinality(prompts) = 2
    /\ save_calls = 2

RequiredNonEmpty(cfg) == \A f \in Required : f \in DOMAIN cfg /\ cfg[f] # ""

\* C9: what save_config wrote is what the next json.load returns; a run that
\* starts with non-empty required fields in the file prompts for none of
\* them and keeps them; a saved index is asked for again only if it is
\* missing or out of range; the audiobook is asked for on every run that
\* gets to the shelf and is never stored.
C9_SavedConfigReused ==
    /\ (saved # <<>>) =>
            (file = JsonFile(saved[1]) /\ json_load(file.text) = saved[1])
    /\ (run_no > 1 /\ pc = "load_fields" /\ field_idx = 1 /\ saved # <<>>)
            => config = saved[1]
    /\ (file0.kind = "json" /\ RequiredNonEmpty(Loaded0)) =>
            /\ prompts \cap Required = {}
            /\ (pc \notin {"load_config", "load_fields"}) =>
                    \A f \in Required : config[f] = Loaded0[f]
    /\ (pc = "library_prompt") => index_invalid(Loaded0, LibraryKey, list_len)
    /\ (pc = "usage_prompt") => index_invalid(Loaded0, UsageKey, list_len)
    /\ (LibraryKey \in prompts \/ pc \in {"load_config", "load_fields"}
            \/ LibraryKey \notin DOMAIN Loaded0)
        \/ config[LibraryKey] = Loaded0[LibraryKey]
    /\ (pc \in {"audiobook_click", "player_load", "forward", "check_missing"})
            => AudiobookPrompt \in prompts
    /\ DOMAIN config \subseteq Keys
    /\ (file.kind = "json") => (DOMAIN json_load(file.text) \subseteq Keys)

\* C9, its case: a second run, started on the file the first run saved, has
\* opened the audiobook having asked for nothing but the audiobook.
C9_Witness ==
    /\ run_no = 2
    /\ saved # <<>>
    /\ file0 = JsonFile(saved[1])
    /\ pc = "player_load"
    /\ prompts = {AudiobookPrompt}


\* the eleven mandatory login and navigation steps, as program points
Mandatory == GateSteps \cup ListSteps \cup ClickSteps
\* the program points that come after the whole login and navigation
PlayerPcs == {"player_load", "forward", "check_missing", "backward"}

\* the program points of the login and navigation
UiPcs == Mandatory \cup BareSteps \cup {"post_login_next"} \cup PromptSteps
\* the mandatory steps that come before each program point
MandatoryBefore ==
    [p \in UiPcs \cup PlayerPcs |-> {t \in Mandatory : Pos(t) < Pos(p)}]
\* the login and navigation steps up to each of them
UpTo ==
    [p \in UiPcs |-> {t \in UiPcs : Pos(t) <= Pos(p)}]

\* C11: the UI steps run in program order and each mandatory step is a gate:
\* a step is made only when all mandatory steps before it have succeeded, a
\* mandatory step that times out ends the run with no later step made, the
\* forward pass is reached only after all of them succeeded, and the
\* post-login "Next" click goes on to the next step however it ends.
C11_StepsAreGates ==
    /\ \A s \in ui_log.passed \cup ({pc} \cap (UiPcs \cup PlayerPcs)) :
            MandatoryBefore[s] \subseteq ui_log.passed
    /\ (ui_log.step # "none") => (ui_log.passed \subseteq UpTo[ui_log.step])
    /\ (ui_log.step \in Mandatory /\ ui_log.outcome # "ok") =>
            /\ pc \in {"finally", "finished"}
            /\ leave \in {"return", "exception"}
            /\ (ui_log.outcome = "timeout") => (leave = "return")
            /\ ui_log.step \notin ui_log.passed
    /\ (leave = "return") =>
            (ui_log.step \in Mandatory /\ ui_log.outcome # "ok")
    /\ (pc \in PlayerPcs \/ fwd_clicks > 0 \/ fwd_i > 0 \/ leave = "end") =>
            (Mandatory \subseteq ui_log.passed)
    /\ (ui_log.step = "post_login_next") =>
            (pc = "login_wait" /\ leave = "none")

\* C11, its case: the optional click failed, the run went on, and the Shelf
\* click then timed out and ended the run without the audiobook steps.
C11_Witness ==
    /\ pc = "finished"
    /\ leave = "return"
    /\ ui_log.step = "shelf"
    /\ ui_log.outcome = "timeout"
    /\ "post_login_next" \notin ui_log.passed
    /\ "login_wait" \in ui_log.passed


\* C12: every number in downloaded_parts is the number of a trigger URL
\* handled earlier in the run, and a CDN response handled before any trigger
\* URL has been seen is neither saved nor recorded.
C12_PartsComeFromTriggers ==
    /\ downloaded_parts \subseteq TriggerNumbers
    /\ (downloaded_parts # {} \/ files # {}) => (last_trigger # NoPart)
    /\ (ev.op = "write") => (ev.part # NoPart)

====
